---- MODULE Spec2Model ----
(***************************************************************************)
(* cli_passwords: get_password / expire_password over the keyring, and the *)
(* inject_password and retry_password wrappers built on them               *)
(* (cli_passwords/cli_passwords.py).                                       *)
(*                                                                         *)
(* The keyring is the shared state.  Each caller (a CLI process) is at a   *)
(* position in one of the four public functions; get_password and          *)
(* expire_password are entered either directly or from a wrapper, and      *)
(* control goes back to whoever entered them.  The wrapped function, the   *)
(* terminal prompt and the keyring backend are outside the package: what   *)
(* the user types, what the wrapped function returns or raises, and        *)
(* whether a collaborator fails, are chosen nondeterministically.          *)
(***************************************************************************)
EXTENDS Integers, FiniteSets, Sequences, TLC

\* ------------------------------------------------------------------ bounds
MaxRetries == 3

\* Largest `retries` of the interleaved calls.
ConcMaxRetries == 2

\* ------------------------------------------------------------- value sets
Procs == {1, 2}

Systems == {"mail"}

Usernames == {"alice", "bob"}

Identities == Systems \X Usernames

\* Python's None; not a string the user can type in this model.
None == "None"

\* What the user may type at the prompt (the empty line included).
Values == {"", "secret1", "secret2"}

StoreValues == Values \cup {None}

\* What the wrapped function may return.
Results == {"42", "0"}

\* What the wrapped function may raise.
OpErrors == {"AuthError", "OtherError"}

\* Values of the `exception` parameter: the default and a specific class.
ExceptionClasses == {"Exception", "AuthError"}

RetriesValues == 0..MaxRetries

VARIABLES store, local, hist, answered

vars == <<store, local, hist, answered>>

\* ------------------------------------------------------- python semantics
\* Faulty variants of Falsy: a test for None alone (`if password is None:`),
\* a test that always succeeds.
Falsy_NoneOnly(x) == x = None

Falsy_Always(x) == TRUE

\* `not x` for x a string or None.
Falsy(x) == x = None \/ x = ""

\* Faulty variant of IsInstance: a bare `except:` that catches everything.
IsInstance_CatchAll(err, cls) == TRUE

\* `except cls as exc` catches err: every error of the model derives from
\* Exception, PasswordDeleteError derives from KeyringError.
IsInstance(err, cls) ==
    \/ cls = "Exception"
    \/ err = cls
    \/ (err = "PasswordDeleteError" /\ cls = "KeyringError")

\* Faulty variant of LoopCond: `while count <= retries`.
LoopCond_OffByOne(count, retries) == count <= retries

\* `while count < retries`
LoopCond(count, retries) == count < retries

\* --------------------------------------------------------------- keyring
\* Faulty variant of KeyringGet: the lookup never finds the entry (the
\* arguments swapped, say).
KeyringGet_Miss(st, system, username) == None

KeyringGet(st, system, username) == st[<<system, username>>]

\* Faulty variant of KeyringSet: the typed password is never stored.
KeyringSet_NoWrite(st, system, username, password) == st

KeyringSet(st, system, username, password) ==
    [st EXCEPT ![<<system, username>>] = password]

\* Faulty variants of KeyringDelete: the entry is left in place; every
\* entry of the keyring is removed.
KeyringDelete_NoOp(st, system, username) == st

KeyringDelete_Wipes(st, system, username) == [i \in DOMAIN st |-> None]

KeyringDelete(st, system, username) ==
    [st EXCEPT ![<<system, username>>] = None]

HasEntry(st, system, username) == st[<<system, username>>] # None

\* ---------------------------------------------------------------- frames
NoOutcome == [kind |-> "none", value |-> None, origin |-> "none"]

Returned(v, origin) == [kind |-> "return", value |-> v, origin |-> origin]

Raised(err, origin) == [kind |-> "raise", value |-> err, origin |-> origin]

IdleFrame ==
    [pc |-> "idle", fn |-> "none", system |-> None, username |-> None,
     refresh |-> FALSE, retries |-> 0, exception |-> "Exception",
     count |-> 0, gp_password |-> None, password |-> None,
     outcome |-> NoOutcome]

\* Observations of the current call, kept for the properties only.
IdleHist ==
    [nFetch |-> 0, nInvoked |-> 0, nDesignated |-> 0, nExpired |-> 0,
     nPrompts |-> 0, nWrites |-> 0, promptsAtCall |-> 0,
     opArg |-> None, opOutcome |-> NoOutcome,
     gpPrompts |-> 0, gpWrites |-> 0, gpEntry |-> [i \in Identities |-> None],
     gpTyped |-> None, epMissing |-> 0, rpEntry |-> None]

Id(p) == <<local[p].system, local[p].username>>

AllIdle == \A q \in Procs : local[q].pc = "idle"

\* A call of get_password starts: per-call observations are reset.
EnterGetPassword(h) ==
    [h EXCEPT !.nFetch = @ + 1, !.gpPrompts = 0, !.gpWrites = 0,
              !.gpEntry = store, !.gpTyped = None]

Init ==
    /\ store = [i \in Identities |-> None]
    /\ local = [p \in Procs |-> IdleFrame]
    /\ hist = [p \in Procs |-> IdleHist]
    /\ answered = [i \in Identities |-> None]

\* ------------------------------------------------------ the entry points
CallGetPassword(p, system, username, refresh) ==
    /\ local[p].pc = "idle"
    /\ local' = [local EXCEPT ![p] =
          [IdleFrame EXCEPT !.pc = "gp_lookup", !.fn = "get_password",
              !.system = system, !.username = username, !.refresh = refresh]]
    /\ hist' = [hist EXCEPT ![p] = EnterGetPassword(IdleHist)]
    /\ UNCHANGED <<store, answered>>

CallExpirePassword(p, system, username) ==
    /\ local[p].pc = "idle"
    /\ local' = [local EXCEPT ![p] =
          [IdleFrame EXCEPT !.pc = "ep_delete", !.fn = "expire_password",
              !.system = system, !.username = username]]
    /\ hist' = [hist EXCEPT ![p] = [IdleHist EXCEPT !.nExpired = 1]]
    /\ UNCHANGED <<store, answered>>

\* inject_password(...)(func)(*args): the wrapper's first line.
CallInjectPassword(p, system, username, refresh) ==
    /\ local[p].pc = "idle"
    /\ local' = [local EXCEPT ![p] =
          [IdleFrame EXCEPT !.pc = "gp_lookup", !.fn = "inject_password",
              !.system = system, !.username = username, !.refresh = refresh]]
    /\ hist' = [hist EXCEPT ![p] = EnterGetPassword(IdleHist)]
    /\ UNCHANGED <<store, answered>>

\* Faulty variant of CallRetryPassword: the counter starts at 1.
CallRetryPassword_CountOne(p, system, username, refresh, retries, exception) ==
    /\ local[p].pc = "idle"
    /\ local' = [local EXCEPT ![p] =
          [IdleFrame EXCEPT !.pc = "rp_loop", !.fn = "retry_password",
              !.system = system, !.username = username, !.refresh = refresh,
              !.retries = retries, !.exception = exception, !.count = 1]]
    /\ hist' = [hist EXCEPT ![p] =
          [IdleHist EXCEPT !.rpEntry = store[<<system, username>>]]]
    /\ UNCHANGED <<store, answered>>

\* retry_password(...)(func)(*args): count = 0, then the loop test.
CallRetryPassword(p, system, username, refresh, retries, exception) ==
    /\ local[p].pc = "idle"
    /\ local' = [local EXCEPT ![p] =
          [IdleFrame EXCEPT !.pc = "rp_loop", !.fn = "retry_password",
              !.system = system, !.username = username, !.refresh = refresh,
              !.retries = retries, !.exception = exception, !.count = 0]]
    /\ hist' = [hist EXCEPT ![p] =
          [IdleHist EXCEPT !.rpEntry = store[<<system, username>>]]]
    /\ UNCHANGED <<store, answered>>

\* ----------------------------------------------------------- get_password
\* Faulty variant of GpLookup: `refresh` is ignored, the keyring is always
\* consulted.
GpLookup_IgnoresRefresh(p) ==
    /\ local[p].pc = "gp_lookup"
    /\ LET f == local[p]
           pw == KeyringGet(store, f.system, f.username)
       IN local' = [local EXCEPT ![p].gp_password = pw,
                       ![p].pc = IF Falsy(pw) THEN "gp_prompt" ELSE "gp_return"]
    /\ UNCHANGED <<store, hist, answered>>

\* password = None; if not refresh: password = keyring.get_password(...);
\* then the test `if not password`.
GpLookup(p) ==
    /\ local[p].pc = "gp_lookup"
    /\ LET f == local[p]
           pw == IF ~f.refresh THEN KeyringGet(store, f.system, f.username)
                 ELSE None
       IN local' = [local EXCEPT ![p].gp_password = pw,
                       ![p].pc = IF Falsy(pw) THEN "gp_prompt" ELSE "gp_return"]
    /\ UNCHANGED <<store, hist, answered>>

\* keyring.get_password fails (backend unavailable): the error leaves
\* get_password and, no handler being around the call, the wrapper too.
GpLookupFails(p) ==
    /\ local[p].pc = "gp_lookup"
    /\ ~local[p].refresh
    /\ local' = [local EXCEPT ![p].pc = "done",
                    ![p].outcome = Raised("KeyringError", "store")]
    /\ UNCHANGED <<store, hist, answered>>

\* password = getpass(display)
GpPrompt(p, typed) ==
    /\ local[p].pc = "gp_prompt"
    /\ local' = [local EXCEPT ![p].gp_password = typed, ![p].pc = "gp_store"]
    /\ hist' = [hist EXCEPT ![p].nPrompts = @ + 1, ![p].gpPrompts = @ + 1,
                            ![p].gpTyped = typed]
    /\ UNCHANGED <<store, answered>>

\* Faulty variant of GpPromptFails: get_password called inside the wrapper's
\* `try`, so that a matching error of the prompt is handled like a failure
\* of the wrapped function.
GpPromptFails_Caught(p) ==
    /\ local[p].pc = "gp_prompt"
    /\ LET caught == /\ local[p].fn = "retry_password"
                     /\ IsInstance("EOFError", local[p].exception)
       IN /\ local' = [local EXCEPT
                ![p].pc = IF caught THEN "ep_delete" ELSE "done",
                ![p].outcome = IF caught THEN @ ELSE Raised("EOFError", "prompter")]
          /\ hist' = [hist EXCEPT ![p].nPrompts = @ + 1, ![p].gpPrompts = @ + 1,
                ![p].nExpired = IF caught THEN @ + 1 ELSE @]
    /\ UNCHANGED <<store, answered>>

\* getpass fails (input stream closed).
GpPromptFails(p) ==
    /\ local[p].pc = "gp_prompt"
    /\ local' = [local EXCEPT ![p].pc = "done",
                    ![p].outcome = Raised("EOFError", "prompter")]
    /\ hist' = [hist EXCEPT ![p].nPrompts = @ + 1, ![p].gpPrompts = @ + 1]
    /\ UNCHANGED <<store, answered>>

\* Faulty variant of GpStore: an empty answer is not stored
\* (`if password: keyring.set_password(...)`).
GpStore_SkipsEmpty(p) ==
    /\ local[p].pc = "gp_store"
    /\ LET f == local[p]
       IN store' = IF f.gp_password = "" THEN store
                   ELSE KeyringSet(store, f.system, f.username, f.gp_password)
    /\ local' = [local EXCEPT ![p].pc = "gp_return"]
    /\ hist' = [hist EXCEPT ![p].nWrites = @ + 1, ![p].gpWrites = @ + 1]
    /\ UNCHANGED answered

\* keyring.set_password(system, username, password)
GpStore(p) ==
    /\ local[p].pc = "gp_store"
    /\ LET f == local[p]
       IN store' = KeyringSet(store, f.system, f.username, f.gp_password)
    /\ local' = [local EXCEPT ![p].pc = "gp_return"]
    /\ hist' = [hist EXCEPT ![p].nWrites = @ + 1, ![p].gpWrites = @ + 1]
    /\ UNCHANGED answered

GpStoreFails(p) ==
    /\ local[p].pc = "gp_store"
    /\ local' = [local EXCEPT ![p].pc = "done",
                    ![p].outcome = Raised("KeyringError", "store")]
    /\ UNCHANGED <<store, hist, answered>>

\* return password: to the caller of get_password.
GpReturn(p) ==
    /\ local[p].pc = "gp_return"
    /\ LET f == local[p]
       IN local' = [local EXCEPT ![p] =
            CASE f.fn = "get_password" ->
                   [f EXCEPT !.pc = "done",
                             !.outcome = Returned(f.gp_password, "get_password")]
              [] f.fn = "inject_password" ->
                   [f EXCEPT !.pc = "ip_call", !.password = f.gp_password]
              [] OTHER ->
                   [f EXCEPT !.pc = "rp_call", !.password = f.gp_password]]
    /\ answered' = IF hist[p].gpPrompts > 0
                   THEN [answered EXCEPT ![Id(p)] = local[p].gp_password]
                   ELSE answered
    /\ UNCHANGED <<store, hist>>

\* -------------------------------------------------------- expire_password
\* keyring.delete_password(system, username), the entry being there.
EpDelete(p) ==
    /\ local[p].pc = "ep_delete"
    /\ HasEntry(store, local[p].system, local[p].username)
    /\ store' = KeyringDelete(store, local[p].system, local[p].username)
    /\ local' = [local EXCEPT ![p].pc =
                    IF local[p].fn = "expire_password" THEN "done" ELSE "rp_loop",
                  ![p].outcome =
                    IF local[p].fn = "expire_password"
                    THEN Returned(None, "expire_password") ELSE @]
    /\ answered' = [answered EXCEPT ![Id(p)] = None]
    /\ UNCHANGED hist

\* keyring.delete_password on a missing entry: the backend decides whether
\* that is a no-op or a PasswordDeleteError; expire_password has no handler.
EpDeleteMissing(p, raises) ==
    /\ local[p].pc = "ep_delete"
    /\ ~HasEntry(store, local[p].system, local[p].username)
    /\ local' = [local EXCEPT ![p].pc =
                    IF raises \/ local[p].fn = "expire_password"
                    THEN "done" ELSE "rp_loop",
                  ![p].outcome =
                    IF raises THEN Raised("PasswordDeleteError", "store")
                    ELSE IF local[p].fn = "expire_password"
                         THEN Returned(None, "expire_password") ELSE @]
    /\ hist' = [hist EXCEPT ![p].epMissing = @ + 1]
    /\ answered' = [answered EXCEPT ![Id(p)] = None]
    /\ UNCHANGED store

\* keyring.delete_password fails (backend unavailable), entry untouched.
EpDeleteFails(p) ==
    /\ local[p].pc = "ep_delete"
    /\ local' = [local EXCEPT ![p].pc = "done",
                    ![p].outcome = Raised("KeyringError", "store")]
    /\ answered' = [answered EXCEPT ![Id(p)] = None]
    /\ UNCHANGED <<store, hist>>

\* ------------------------------------------------ inject_password wrapper
\* Faulty variant of IpCall: an error of the wrapped function expires the
\* password, as the retrying wrapper does.
IpCall_Expires(p, out) ==
    /\ local[p].pc = "ip_call"
    /\ local' = [local EXCEPT
          ![p].pc = IF out.kind = "raise" THEN "ep_delete" ELSE "done",
          ![p].outcome = out]
    /\ hist' = [hist EXCEPT ![p].nInvoked = @ + 1,
                            ![p].opArg = local[p].password,
                            ![p].opOutcome = out,
                            ![p].promptsAtCall = hist[p].nPrompts,
                            ![p].nExpired = IF out.kind = "raise" THEN @ + 1 ELSE @]
    /\ UNCHANGED <<store, answered>>

\* return func(password, *args, **kwargs)
IpCall(p, out) ==
    /\ local[p].pc = "ip_call"
    /\ local' = [local EXCEPT ![p].pc = "done", ![p].outcome = out]
    /\ hist' = [hist EXCEPT ![p].nInvoked = @ + 1,
                            ![p].opArg = local[p].password,
                            ![p].opOutcome = out,
                            ![p].promptsAtCall = hist[p].nPrompts]
    /\ UNCHANGED <<store, answered>>

\* ------------------------------------------------- retry_password wrapper
\* Faulty variant of RpIterate: the counter is shared by the calls in
\* progress (kept outside the wrapper), so one call's iteration counts for
\* all of them.
RpIterate_SharedCount(p) ==
    /\ local[p].pc = "rp_loop"
    /\ LoopCond(local[p].count, local[p].retries)
    /\ local' = [q \in Procs |->
          IF q = p THEN [local[p] EXCEPT !.count = @ + 1, !.pc = "gp_lookup"]
          ELSE IF local[q].fn = "retry_password"
               THEN [local[q] EXCEPT !.count = @ + 1]
               ELSE local[q]]
    /\ hist' = [hist EXCEPT ![p] = EnterGetPassword(@)]
    /\ UNCHANGED <<store, answered>>

\* Faulty variant of RpIterate: `count += 1` is missing.
RpIterate_NoIncrement(p) ==
    /\ local[p].pc = "rp_loop"
    /\ LoopCond(local[p].count, local[p].retries)
    /\ local' = [local EXCEPT ![p].pc = "gp_lookup"]
    /\ hist' = [hist EXCEPT ![p] = EnterGetPassword(@)]
    /\ UNCHANGED <<store, answered>>

\* while count < retries: count += 1; password = get_password(...)
RpIterate(p) ==
    /\ local[p].pc = "rp_loop"
    /\ LoopCond(local[p].count, local[p].retries)
    /\ local' = [local EXCEPT ![p].count = @ + 1, ![p].pc = "gp_lookup"]
    /\ hist' = [hist EXCEPT ![p] = EnterGetPassword(@)]
    /\ UNCHANGED <<store, answered>>

\* Faulty variant of RpGiveUp: the last error of the wrapped function is
\* raised again (what the docstring's tracebacks show).
RpGiveUp_Reraise(p) ==
    /\ local[p].pc = "rp_loop"
    /\ ~LoopCond(local[p].count, local[p].retries)
    /\ local' = [local EXCEPT ![p].pc = "done",
          ![p].outcome = IF hist[p].opOutcome.kind = "raise" THEN hist[p].opOutcome
                         ELSE Raised("TooManyFailedPasswordAttemptsException", "wrapper")]
    /\ UNCHANGED <<store, hist, answered>>

\* the loop is left: print('Too many password attempts'); raise ...
RpGiveUp(p) ==
    /\ local[p].pc = "rp_loop"
    /\ ~LoopCond(local[p].count, local[p].retries)
    /\ local' = [local EXCEPT ![p].pc = "done",
          ![p].outcome = Raised("TooManyFailedPasswordAttemptsException", "wrapper")]
    /\ UNCHANGED <<store, hist, answered>>

\* Faulty variant of RpCall: the `return` is missing, so a successful call
\* falls through to the next iteration.
RpCall_NoReturn(p, out) ==
    /\ local[p].pc = "rp_call"
    /\ LET caught == out.kind = "raise" /\ IsInstance(out.value, local[p].exception)
       IN /\ local' = [local EXCEPT
                ![p].pc = IF caught THEN "ep_delete"
                          ELSE IF out.kind = "return" THEN "rp_loop" ELSE "done",
                ![p].outcome = IF out.kind = "raise" /\ ~caught THEN out ELSE @]
          /\ hist' = [hist EXCEPT ![p].nInvoked = @ + 1,
                ![p].opArg = local[p].password,
                ![p].opOutcome = out,
                ![p].promptsAtCall = hist[p].nPrompts,
                ![p].nDesignated = IF caught THEN @ + 1 ELSE @,
                ![p].nExpired = IF caught THEN @ + 1 ELSE @]
    /\ UNCHANGED <<store, answered>>

\* try: return func(password, *args, **kwargs)
\* except exception as exc: log, print, expire_password(system, username)
RpCall(p, out) ==
    /\ local[p].pc = "rp_call"
    /\ LET caught == out.kind = "raise" /\ IsInstance(out.value, local[p].exception)
       IN /\ local' = [local EXCEPT
                ![p].pc = IF caught THEN "ep_delete" ELSE "done",
                ![p].outcome = IF caught THEN @ ELSE out]
          /\ hist' = [hist EXCEPT ![p].nInvoked = @ + 1,
                ![p].opArg = local[p].password,
                ![p].opOutcome = out,
                ![p].promptsAtCall = hist[p].nPrompts,
                ![p].nDesignated = IF caught THEN @ + 1 ELSE @,
                ![p].nExpired = IF caught THEN @ + 1 ELSE @]
    /\ UNCHANGED <<store, answered>>

\* The call is over: the caller has its result or its error.
Finish(p) ==
    /\ local[p].pc = "done"
    /\ local' = [local EXCEPT ![p] = IdleFrame]
    /\ hist' = [hist EXCEPT ![p] = IdleHist]
    /\ UNCHANGED <<store, answered>>

\* ------------------------------------------------------------ the system
OpOutcomes ==
    {Returned(r, "op") : r \in Results} \cup {Raised(e, "op") : e \in OpErrors}

Start(p) ==
    \/ \E s \in Systems, u \in Usernames, r \in BOOLEAN :
          CallGetPassword(p, s, u, r)
    \/ \E s \in Systems, u \in Usernames : CallExpirePassword(p, s, u)
    \/ \E s \in Systems, u \in Usernames, r \in BOOLEAN :
          CallInjectPassword(p, s, u, r)
    \/ \E s \in Systems, u \in Usernames, r \in BOOLEAN,
          n \in RetriesValues, e \in ExceptionClasses :
          CallRetryPassword(p, s, u, r, n, e)

Step(p) ==
    \/ GpLookup(p)
    \/ GpLookupFails(p)
    \/ \E v \in Values : GpPrompt(p, v)
    \/ GpPromptFails(p)
    \/ GpStore(p)
    \/ GpStoreFails(p)
    \/ GpReturn(p)
    \/ EpDelete(p)
    \/ \E raises \in BOOLEAN : EpDeleteMissing(p, raises)
    \/ EpDeleteFails(p)
    \/ \E out \in OpOutcomes : IpCall(p, out)
    \/ RpIterate(p)
    \/ RpGiveUp(p)
    \/ \E out \in OpOutcomes : RpCall(p, out)
    \/ Finish(p)

\* One caller at a time: a call starts only when no other is in progress.
Next == \E p \in Procs : (AllIdle /\ Start(p)) \/ Step(p)

Spec == Init /\ [][Next]_vars

\* Every keyring call, prompt and invocation of the wrapped function returns
\* or raises: a call in progress takes its next step.
FairSpec == Spec /\ WF_vars(\E p \in Procs : Step(p))

\* Two retry_password calls on the same (system, username), interleaved
\* statement by statement: no lock is taken around the keyring.
SharedUsername == "alice"

\* What is typed, and what the wrapped function does, in the interleaved
\* calls: one password; a result, a designated failure, another failure.
ConcValues == {"secret1"}

ConcOutcomes ==
    {Returned("42", "op"), Raised("AuthError", "op"), Raised("OtherError", "op")}

ConcStart(p) ==
    \E s \in Systems, r \in BOOLEAN, n \in 0..ConcMaxRetries :
        CallRetryPassword(p, s, SharedUsername, r, n, "AuthError")

ConcStep(p) ==
    \/ GpLookup(p)
    \/ GpLookupFails(p)
    \/ \E v \in ConcValues : GpPrompt(p, v)
    \/ GpPromptFails(p)
    \/ GpStore(p)
    \/ GpStoreFails(p)
    \/ GpReturn(p)
    \/ EpDelete(p)
    \/ \E raises \in BOOLEAN : EpDeleteMissing(p, raises)
    \/ EpDeleteFails(p)
    \/ RpIterate(p)
    \/ RpGiveUp(p)
    \/ \E out \in ConcOutcomes : RpCall(p, out)
    \/ Finish(p)

ConcNext == \E p \in Procs : ConcStart(p) \/ ConcStep(p)

ConcSpec == Init /\ [][ConcNext]_vars

\* ------------------------------------------------------------ properties
Done(p) == local[p].pc = "done"

InRetry(p) == local[p].fn = "retry_password"

InGetPassword(p) ==
    local[p].pc \in {"gp_lookup", "gp_prompt", "gp_store", "gp_return"}

\* The call ended on an error of the keyring or of the prompt.
CollabFailed(p) == local[p].outcome.origin \in {"store", "prompter"}

TooMany == Raised("TooManyFailedPasswordAttemptsException", "wrapper")

\* The stored value get_password found on entry is one it reuses.
StoredOnEntry(p) == hist[p].gpEntry[Id(p)] \notin {None, ""}

\* What a get_password call that had to prompt has done when it returns:
\* one prompt, one write, of the typed string, under its own identity only.
PromptedOnce(p) ==
    /\ hist[p].gpPrompts = 1
    /\ hist[p].gpWrites = 1
    /\ local[p].gp_password = hist[p].gpTyped
    /\ store = [hist[p].gpEntry EXCEPT ![Id(p)] = hist[p].gpTyped]

C2_EarlySuccess ==
    \A p \in Procs : (InRetry(p) /\ hist[p].opOutcome.kind = "return") =>
        /\ Done(p)
        /\ local[p].outcome = hist[p].opOutcome
        /\ hist[p].nInvoked = local[p].count
        /\ local[p].count <= local[p].retries
        /\ hist[p].nDesignated = hist[p].nInvoked - 1
        /\ hist[p].nExpired = hist[p].nInvoked - 1

C2_Witness ==
    \E p \in Procs :
        /\ InRetry(p) /\ Done(p)
        /\ local[p].outcome = Returned("42", "op")
        /\ hist[p].nInvoked = 3 /\ hist[p].nExpired = 2

\* The wrapped function's last error is one the `exception` parameter does
\* not select (in this model: OtherError under exception=AuthError).
OtherFailure(p) ==
    /\ local[p].exception = "AuthError"
    /\ hist[p].opOutcome = Raised("OtherError", "op")

\* C3: when the wrapped function raises an error that does not match the
\* `exception` class on attempt k, the loop stops at once: k invocations,
\* no expire_password after that failure (only the k-1 of the earlier
\* designated failures), the keyring still holds the password passed to the
\* function, nothing more is prompted, and the caller gets that same error.
C3_OtherFailureAborts ==
    \A p \in Procs : (InRetry(p) /\ OtherFailure(p)) =>
        /\ Done(p)
        /\ local[p].outcome = hist[p].opOutcome
        /\ local[p].outcome # TooMany
        /\ hist[p].nInvoked = local[p].count
        /\ hist[p].nDesignated = hist[p].nInvoked - 1
        /\ hist[p].nExpired = hist[p].nInvoked - 1
        /\ store[Id(p)] = hist[p].opArg
        /\ hist[p].opArg # None
        /\ hist[p].nPrompts = hist[p].promptsAtCall

C3_Witness ==
    \E p \in Procs :
        /\ InRetry(p) /\ Done(p) /\ OtherFailure(p)
        /\ hist[p].nInvoked = 2 /\ hist[p].nExpired = 1
        /\ store[Id(p)] = "secret1"

C5_CacheReuse ==
    \A p \in Procs :
        /\ (InGetPassword(p) /\ ~local[p].refresh /\ StoredOnEntry(p)) =>
              /\ local[p].pc \in {"gp_lookup", "gp_return"}
              /\ hist[p].gpPrompts = 0
              /\ hist[p].gpWrites = 0
              /\ store = hist[p].gpEntry
              /\ (local[p].pc = "gp_return" =>
                    local[p].gp_password = hist[p].gpEntry[Id(p)])
        /\ (local[p].fn = "get_password" /\ Done(p) /\ ~local[p].refresh
               /\ StoredOnEntry(p) /\ ~CollabFailed(p)) =>
              /\ local[p].outcome = Returned(hist[p].gpEntry[Id(p)], "get_password")
              /\ hist[p].nPrompts = 0 /\ hist[p].nWrites = 0
              /\ store = hist[p].gpEntry

C5_Witness ==
    \E p \in Procs :
        /\ local[p].fn = "get_password" /\ Done(p) /\ ~local[p].refresh
        /\ hist[p].gpEntry[Id(p)] = "secret1"
        /\ local[p].outcome = Returned("secret1", "get_password")

\* C6: get_password with refresh=True, entered while the keyring holds a
\* value for (system, username), prompts exactly once, writes the typed
\* value under (system, username) exactly once, over the old one, and
\* returns the typed value, not the one that was stored.
C6_ForcedRefresh ==
    \A p \in Procs :
        (local[p].refresh /\ hist[p].gpEntry[Id(p)] # None) =>
            /\ InGetPassword(p) => (hist[p].gpPrompts <= 1 /\ hist[p].gpWrites <= 1)
            /\ local[p].pc = "gp_return" => PromptedOnce(p)
            /\ (local[p].fn = "get_password" /\ Done(p) /\ ~CollabFailed(p)) =>
                  /\ local[p].outcome = Returned(hist[p].gpTyped, "get_password")
                  /\ PromptedOnce(p)

C6_Witness ==
    \E p \in Procs :
        /\ local[p].fn = "get_password" /\ Done(p) /\ local[p].refresh
        /\ hist[p].gpEntry[Id(p)] = "secret1"
        /\ local[p].outcome = Returned("secret2", "get_password")
        /\ store[Id(p)] = "secret2"

\* C7: get_password entered while the keyring holds no value, or an empty
\* one, for (system, username) prompts exactly once, stores the typed
\* string under (system, username) and returns it, whatever refresh is:
\* after the call the entry equals the returned value.
C7_FirstUsePrompt ==
    \A p \in Procs :
        (local[p].fn # "none" /\ local[p].fn # "expire_password"
            /\ hist[p].nFetch > 0 /\ hist[p].gpEntry[Id(p)] \in {None, ""}) =>
            /\ InGetPassword(p) => (hist[p].gpPrompts <= 1 /\ hist[p].gpWrites <= 1)
            /\ local[p].pc = "gp_return" =>
                  (PromptedOnce(p) /\ store[Id(p)] = local[p].gp_password)
            /\ (local[p].fn = "get_password" /\ Done(p) /\ ~CollabFailed(p)) =>
                  /\ local[p].outcome = Returned(hist[p].gpTyped, "get_password")
                  /\ PromptedOnce(p)
                  /\ store[Id(p)] = local[p].outcome.value

C7_Witness ==
    \E p \in Procs :
        /\ local[p].fn = "get_password" /\ Done(p) /\ ~local[p].refresh
        /\ hist[p].gpEntry[Id(p)] = ""
        /\ local[p].outcome = Returned("secret1", "get_password")
        /\ store[Id(p)] = "secret1"

\* C8: a call of a function wrapped by inject_password calls get_password
\* exactly once, then invokes the function exactly once with that password
\* as first argument, and gives the caller the function's result or the
\* function's error as it is; it never retries and never calls
\* expire_password, whatever the function raises.
C8_InjectOnce ==
    \A p \in Procs : local[p].fn = "inject_password" =>
        /\ hist[p].nFetch = 1
        /\ hist[p].nExpired = 0
        /\ hist[p].nInvoked <= 1
        /\ local[p].pc \notin {"idle", "ep_delete", "rp_loop", "rp_call"}
        /\ hist[p].nInvoked = 1 =>
              /\ Done(p)
              /\ hist[p].opArg = local[p].gp_password
              /\ local[p].outcome = hist[p].opOutcome
        /\ Done(p) => (hist[p].nInvoked = 1 \/ CollabFailed(p))

C8_Witness ==
    \E p \in Procs :
        /\ local[p].fn = "inject_password" /\ Done(p)
        /\ local[p].outcome = Raised("AuthError", "op")
        /\ hist[p].opArg = "secret1"
        /\ store[Id(p)] = "secret1"

\* C9 as stated: once a get_password call on (system, username) has
\* prompted and returned v, a later get_password call on that identity with
\* refresh=False, no expire_password in between, returns v without
\* prompting, for every v the prompt can return.
C9_AskedOnce_AnyValue ==
    \A p \in Procs :
        (local[p].pc = "gp_return" /\ ~local[p].refresh
            /\ answered[Id(p)] # None) =>
            /\ local[p].gp_password = answered[Id(p)]
            /\ hist[p].gpPrompts = 0

\* C9 amended: the same for every non-empty v (an empty answer is stored
\* but read back as "not set", so the next call prompts again).
C9_AskedOnce_NonEmpty ==
    \A p \in Procs :
        (local[p].pc = "gp_return" /\ ~local[p].refresh
            /\ answered[Id(p)] \notin {None, ""}) =>
            /\ local[p].gp_password = answered[Id(p)]
            /\ hist[p].gpPrompts = 0
            /\ store = hist[p].gpEntry

C9_Witness ==
    \E p \in Procs :
        /\ local[p].pc = "gp_return" /\ ~local[p].refresh
        /\ answered[Id(p)] = "secret2"
        /\ local[p].gp_password = "secret2"
        /\ hist[p].gpPrompts = 0

\* C10: in retry_password, at every invocation of the wrapped function the
\* keyring entry for (system, username) equals the password passed to the
\* function, so when the function returns the keyring holds the password
\* of the successful attempt (the function and other processes leaving the
\* keyring alone).
C10_StoreHoldsPassedPassword ==
    \A p \in Procs : InRetry(p) =>
        /\ local[p].pc = "rp_call" =>
              /\ local[p].password # None
              /\ store[Id(p)] = local[p].password
        /\ (Done(p) /\ hist[p].opOutcome.kind = "return") =>
              /\ hist[p].opArg = local[p].password
              /\ store[Id(p)] = hist[p].opArg

\* The scenario: the first password fails, the second succeeds with 42.
C10_Witness ==
    \E p \in Procs :
        /\ InRetry(p) /\ Done(p) /\ local[p].retries = 3
        /\ local[p].exception = "AuthError"
        /\ local[p].outcome = Returned("42", "op")
        /\ hist[p].nInvoked = 2 /\ hist[p].nExpired = 1 /\ hist[p].nPrompts = 2
        /\ hist[p].opArg = "secret2"
        /\ store[Id(p)] = "secret2"

\* C11: whenever a retry_password call with retries >= 1 ends with
\* TooManyFailedPasswordAttemptsException, the keyring holds no entry for
\* (system, username): the last failed password was expired and nothing was
\* stored after it.
C11_GivenUpStoreEmpty ==
    \A p \in Procs :
        (InRetry(p) /\ Done(p) /\ local[p].retries >= 1
            /\ local[p].outcome = TooMany) =>
            /\ store[Id(p)] = None
            /\ hist[p].nWrites <= hist[p].nInvoked
            /\ hist[p].nExpired = hist[p].nInvoked

\* The scenario: retries=1, one invocation, one expiry, the keyring empty.
C11_Witness ==
    \E p \in Procs :
        /\ InRetry(p) /\ Done(p) /\ local[p].retries = 1
        /\ local[p].outcome = TooMany
        /\ hist[p].nInvoked = 1 /\ hist[p].nExpired = 1 /\ hist[p].nWrites = 1
        /\ store[Id(p)] = None

\* C12, the docstring's examples: when the wrapped function raises the
\* designated exception on every attempt, it runs exactly `retries` times
\* and the caller then gets the wrapped function's own exception.
C12_DocstringReraises ==
    \A p \in Procs :
        (InRetry(p) /\ Done(p) /\ local[p].retries >= 1 /\ ~CollabFailed(p)
            /\ hist[p].nDesignated = hist[p].nInvoked) =>
            /\ hist[p].nInvoked = local[p].retries
            /\ local[p].outcome = hist[p].opOutcome

\* The retry_password call ended on an error of the keyring or of the
\* prompt raised while get_password ran (the iteration had not yet invoked
\* the wrapped function).
FetchFailed(p) ==
    /\ InRetry(p) /\ Done(p) /\ CollabFailed(p)
    /\ hist[p].nInvoked = local[p].count - 1

\* C13 as stated: an error of the keyring or of the prompt raised while the
\* password is fetched reaches the caller only when it does not match the
\* `exception` class; one that matches is handled like a designated failure
\* (password expired, then retry or TooManyFailedPasswordAttemptsException).
C13_FetchErrorByClass ==
    \A p \in Procs :
        FetchFailed(p) => ~IsInstance(local[p].outcome.value, local[p].exception)

\* C13 amended: such an error reaches the caller at once whether or not it
\* matches the `exception` class: get_password is called outside the `try`,
\* so there is no expire_password for it and no further attempt; the
\* handler runs only after the wrapped function itself raised.
C13_FetchErrorPropagates ==
    \A p \in Procs : InRetry(p) =>
        /\ local[p].pc = "ep_delete" =>
              /\ hist[p].nInvoked = local[p].count
              /\ hist[p].opOutcome.kind = "raise"
        /\ hist[p].nExpired = hist[p].nDesignated
        /\ hist[p].nExpired <= hist[p].nInvoked
        /\ FetchFailed(p) =>
              /\ local[p].outcome.value \in {"KeyringError", "EOFError"}
              /\ hist[p].nExpired = hist[p].nInvoked
              /\ hist[p].nFetch = local[p].count
              /\ store = hist[p].gpEntry

\* A prompt error that matches the default class ends the call on the
\* second iteration.
C13_Witness ==
    \E p \in Procs :
        /\ FetchFailed(p) /\ local[p].exception = "Exception"
        /\ local[p].retries = 3 /\ local[p].count = 2
        /\ local[p].outcome = Raised("EOFError", "prompter")
        /\ hist[p].nExpired = 1

\* The step by which caller p leaves keyring.delete_password.
ExpireStep(p) == local[p].pc = "ep_delete" /\ local'[p].pc # "ep_delete"

\* C14: expire_password leaves the keyring with no entry for (system,
\* username) and touches no other entry; called when there is no entry it
\* raises nothing of its own (only what the keyring raises) and leaves the
\* keyring as it is, so a second call in a row ends in the same keyring as
\* the first; a get_password(refresh=False) that finds no entry prompts.
C14_ExpireIdempotent ==
    /\ [](\A p \in Procs :
            /\ (local[p].fn = "expire_password" /\ Done(p)) =>
                  /\ local[p].outcome.kind = "return" => store[Id(p)] = None
                  /\ local[p].outcome.kind = "raise" =>
                        local[p].outcome.origin = "store"
            /\ (local[p].pc = "gp_return" /\ ~local[p].refresh
                   /\ hist[p].gpEntry[Id(p)] = None) => hist[p].gpPrompts = 1)
    /\ [][\A p \in Procs : ExpireStep(p) =>
            /\ \/ /\ store' = [store EXCEPT ![Id(p)] = None]
                  /\ local'[p].outcome.origin # "store"
               \/ /\ store' = store
                  /\ local'[p].outcome.origin = "store"
            /\ store[Id(p)] = None => store' = store]_vars

\* expire_password called on a missing entry returns, another entry of the
\* keyring being in place.
C14_Witness ==
    \E p \in Procs :
        /\ local[p].fn = "expire_password" /\ Done(p)
        /\ hist[p].epMissing = 1
        /\ local[p].outcome = Returned(None, "expire_password")
        /\ store[Id(p)] = None
        /\ \E i \in Identities : store[i] = "secret1"

\* One if the first lookup of the retry_password call reuses the stored
\* password (refresh=False, a non-empty value stored on entry), else zero.
ReusedAtEntry(p) ==
    IF ~local[p].refresh /\ hist[p].rpEntry \notin {None, ""} THEN 1 ELSE 0

\* After a designated failure the next iteration finds no entry and prompts
\* exactly once before the wrapped function is invoked again, whatever
\* refresh is.
RepromptsAfterFailure(p) ==
    (local[p].pc = "rp_call" /\ local[p].count >= 2) =>
        /\ hist[p].gpPrompts = 1
        /\ hist[p].gpEntry[Id(p)] = None
        /\ local[p].password = hist[p].gpTyped

\* C15: in retry_password every iteration after a designated failure
\* prompts exactly once before the wrapped function is invoked again,
\* whatever refresh is; hence the number of prompts of a call equals the
\* number of invocations of the wrapped function, minus one exactly when
\* refresh=False and a non-empty value was stored on entry.
C15_PromptsPerInvocation ==
    \A p \in Procs : InRetry(p) =>
        /\ RepromptsAfterFailure(p)
        /\ (Done(p) /\ ~CollabFailed(p)) =>
              hist[p].nPrompts = hist[p].nInvoked - ReusedAtEntry(p)

\* C15 for the calls that run the loop body at least once (retries >= 1).
C15_PromptsWhenAttempted ==
    \A p \in Procs : (InRetry(p) /\ local[p].retries >= 1) =>
        /\ RepromptsAfterFailure(p)
        /\ hist[p].nInvoked >= 1 =>
              hist[p].promptsAtCall = hist[p].nInvoked - ReusedAtEntry(p)
        /\ (Done(p) /\ ~CollabFailed(p)) =>
              hist[p].nPrompts = hist[p].nInvoked - ReusedAtEntry(p)

\* The three ways a retry_password call ends.
Success(p) ==
    /\ local[p].outcome.kind = "return"
    /\ local[p].outcome = hist[p].opOutcome

OtherFailureEnd(p) ==
    /\ local[p].outcome.kind = "raise"
    /\ local[p].outcome.origin \in {"op", "store", "prompter"}

TerminalFailure(p) == local[p].outcome = TooMany

\* C16: every keyring call, prompt and invocation returning or raising,
\* each retry_password call eventually ends, in exactly one of SUCCESS
\* (result returned), OTHER_FAILURE (error propagated) and TERMINAL_FAILURE
\* (TooManyFailedPasswordAttemptsException), after at most `retries`
\* iterations of the loop.
C16_Terminates ==
    /\ \A p \in Procs : [](InRetry(p) => <>Done(p))
    /\ [](\A p \in Procs : InRetry(p) =>
            /\ hist[p].nFetch <= local[p].retries
            /\ Done(p) =>
                  /\ Success(p) \/ OtherFailureEnd(p) \/ TerminalFailure(p)
                  /\ ~(Success(p) /\ OtherFailureEnd(p))
                  /\ ~(Success(p) /\ TerminalFailure(p))
                  /\ ~(OtherFailureEnd(p) /\ TerminalFailure(p))
            /\ ~Done(p) => local[p].outcome = NoOutcome)

\* A call that used all its iterations and ended on the last one's success.
C16_Witness ==
    \E p \in Procs :
        /\ InRetry(p) /\ Done(p) /\ local[p].retries = 3
        /\ hist[p].nFetch = 3
        /\ Success(p)

\* C17: in every state of a retry_password call, whatever the wrapped
\* function does, the counter starts at 0, grows by exactly one per
\* iteration of the loop, never exceeds `retries`, and the number of
\* invocations of the wrapped function so far is at most the counter.
C17_CounterBounds ==
    /\ [](\A p \in Procs : InRetry(p) =>
            /\ local[p].count >= 0
            /\ local[p].count <= local[p].retries
            /\ local[p].count = hist[p].nFetch
            /\ hist[p].nInvoked <= local[p].count
            /\ hist[p].nInvoked <= local[p].retries)
    /\ [][\A p \in Procs :
            /\ (~InRetry(p) /\ local'[p].fn = "retry_password") =>
                  local'[p].count = 0
            /\ (InRetry(p) /\ local'[p].fn = "retry_password") =>
                  \/ local'[p].count = local[p].count
                  \/ /\ local'[p].count = local[p].count + 1
                     /\ local[p].pc = "rp_loop"
                     /\ local'[p].pc = "gp_lookup"]_vars

\* The third iteration is about to invoke the wrapped function.
C17_Witness ==
    \E p \in Procs :
        /\ InRetry(p) /\ local[p].pc = "rp_call"
        /\ local[p].retries = 3 /\ local[p].count = 3
        /\ hist[p].nInvoked = 2

\* C18: retries >= 1 holds for every retry wrapper that runs (a value
\* below 1 is not accepted), so every retry_password call fetches a
\* password and invokes the wrapped function at least once before it can
\* end, and TooManyFailedPasswordAttemptsException never comes with zero
\* invocations.
C18_AtLeastOneAttempt ==
    \A p \in Procs : InRetry(p) =>
        /\ local[p].retries >= 1
        /\ Done(p) => hist[p].nFetch >= 1
        /\ (Done(p) /\ ~CollabFailed(p)) => hist[p].nInvoked >= 1
        /\ local[p].outcome = TooMany => hist[p].nInvoked >= 1

\* C19: every expire_password call made by the retry loop happens while the
\* keyring holds an entry for (system, username), whatever was typed at
\* the prompt (the empty string included): the loop never asks the keyring
\* to delete a missing entry (the wrapped function and other processes
\* leaving the keyring alone).
C19_ExpireFindsEntry ==
    \A p \in Procs : InRetry(p) =>
        /\ local[p].pc = "ep_delete" =>
              /\ HasEntry(store, local[p].system, local[p].username)
              /\ store[Id(p)] = hist[p].opArg
        /\ hist[p].epMissing = 0
        /\ local[p].outcome.value # "PasswordDeleteError"

\* An empty password has just failed and is about to be expired.
C19_Witness ==
    \E p \in Procs :
        /\ InRetry(p) /\ local[p].pc = "ep_delete"
        /\ hist[p].opArg = ""
        /\ store[Id(p)] = ""
        /\ hist[p].nExpired = 2

\* C20: each retry_password call has its own counter: when two calls on the
\* same (system, username) are interleaved step by step, each invokes its
\* wrapped function at most its own `retries` times and raises
\* TooManyFailedPasswordAttemptsException only after its own `retries`
\* designated failures, whatever the other call does to the shared entry.
C20_OwnCounter ==
    /\ [](\A p \in Procs : InRetry(p) =>
            /\ hist[p].nInvoked <= local[p].retries
            /\ local[p].count = hist[p].nFetch
            /\ hist[p].nInvoked <= local[p].count
            /\ local[p].outcome = TooMany =>
                  /\ hist[p].nDesignated = local[p].retries
                  /\ hist[p].nInvoked = local[p].retries)
    /\ [][\A p \in Procs : local'[p].count # local[p].count =>
            \A q \in Procs \ {p} : local'[q] = local[q]]_vars

\* One call has given up after its two failures, having met an entry the
\* other call had deleted, while the other call is still in its loop.
C20_Witness ==
    \E p \in Procs, q \in Procs :
        /\ p # q
        /\ InRetry(p) /\ Done(p) /\ local[p].retries = 2
        /\ local[p].outcome = TooMany
        /\ hist[p].epMissing >= 1
        /\ InRetry(q) /\ local[q].pc = "rp_call" /\ local[q].retries = 1
        /\ hist[q].nInvoked = 0

====
